---- MODULE Spec2Model ----
(***************************************************************************)
(* Model of marketing_bot.py: the event poller (poll_and_broadcast), the    *)
(* state record (get_state / set_state), the roster (get_users /           *)
(* upsert_user_row) and the roster commands.                               *)
(*                                                                         *)
(* Money is fixed point: one unit is a cent.  The code computes in binary  *)
(* floating point; a division here rounds to the nearest unit, so a        *)
(* "within rounding tolerance" statement allows one unit per summand.      *)
(*                                                                         *)
(* Scheduling: poll_and_broadcast and every command handler run on one     *)
(* asyncio loop.  All gspread calls are synchronous, so control can change *)
(* hands only at an await: in the poll cycle that is send_all (line 997),  *)
(* in a command handler its reply (after its sheet writes).  Any gspread   *)
(* call may raise.                                                         *)
(***************************************************************************)
EXTENDS Integers, Sequences, FiniteSets, TLC

VARIABLES
    log,             \* BMR_DCA_Log: the data rows below the header, in order
    lastRowCell,     \* Marketing_State!A2 (Last_Row)
    profitCell,      \* Marketing_State!C2 (Profit30_Total_USDT)
    roster,          \* Marketing_Users: chat id -> investor record
    open_positions,  \* the module-level dict: sid -> cohort entry
    pc,              \* where the poll cycle stands
    last_row,        \* poll_and_broadcast locals ...
    total_rows,
    profit30_total,
    new_records,     \* the rows of the batch not handled yet
    users_all,
    per_user_msgs,   \* recipients with queued text, in insertion order
    began,           \* history: the cursor and the log length that the cycle in flight
                     \*          found, or that a cycle with nothing new just found
    entry,           \* history: sid -> the cohort its latest OPEN recorded
    handled,         \* history: serials of the rows this cycle handled, in order
    applied,         \* history: serial -> times the row's effects were applied
    last,            \* history: the latest row handling of the cycle in flight
    errors,          \* history: exceptions raised so far
    cmds,            \* history: commands served so far
    written,         \* history: chat id -> the value a command wrote to Pending_Deposit
                     \*          last, since the latest OPEN row was handled
    reply,           \* history: the available bonus that the latest /balance,
                     \*          /withdraw_bonus or /withdraw_all computed
    sends,           \* history: the sends this cycle attempted, in order, each
                     \*          with whether send_message returned
    skipped,         \* history: the number of log rows the latest cycle that read
                     \*          cursor 0 found
    update           \* the Telegram update dispatched last: its sender, whether its
                     \*          handler has run, the Marketing_Ledger rows the handler
                     \*          appended and the messages it sent

stateVars == <<lastRowCell, profitCell>>
localVars == <<last_row, total_rows, profit30_total, new_records, users_all, per_user_msgs>>
histVars  == <<began, entry, handled, applied, last, errors, cmds, written, reply,
               sends, skipped, update>>
vars == <<log, stateVars, roster, open_positions, pc, localVars, histVars>>

----------------------------------------------------------------------------
(* Bounds of the model *)

MaxLog == 3
MaxErrors == 1
MaxCmds == 2

(* Program constants *)

\* pool30 = pnl_usd * 0.30, as a percentage
SharePct == 30

Users == {1, 2}
\* Marketing_Users row order: get_users returns the records in sheet order
UserIds == <<1, 2>>
Sids == {"S1", "S2"}

OpenEvents  == {"OPEN"}
AddEvents   == {"ADD", "RETEST_ADD"}
CloseEvents == {"TP_HIT", "SL_HIT", "MANUAL_CLOSE"}

----------------------------------------------------------------------------
(* Arithmetic *)

Abs(x) == IF x < 0 THEN 0 - x ELSE x

\* a / b to the nearest unit, b > 0
RoundDiv(a, b) == (2 * a + b) \div (2 * b)

RECURSIVE SumSeq(_)
SumSeq(s) == IF s = <<>> THEN 0 ELSE Head(s) + SumSeq(Tail(s))

----------------------------------------------------------------------------
(* Marketing_Users *)

\* a chat id with no row in the sheet
NoUser == [present |-> FALSE, active |-> FALSE, deposit |-> 0, pending |-> 0,
           bonus_acc |-> 0, bonus_paid |-> 0, bonus_to_dep |-> 0]

Field(ch, f, default) == IF f \in DOMAIN ch THEN ch[f] ELSE default

\* upsert_user_row(chat_id, **ch): ch maps the keyword arguments given to their
\* values.  An existing row keeps every field not given; a new row gets the
\* defaults, Active TRUE unless active=False was passed.
Upsert(r, c, ch) ==
    IF r[c].present
    THEN [r EXCEPT ![c] = [f \in DOMAIN r[c] |-> Field(ch, f, r[c][f])]]
    ELSE [r EXCEPT ![c] = [present |-> TRUE,
                           active |-> Field(ch, "active", TRUE),
                           deposit |-> Field(ch, "deposit", 0),
                           pending |-> Field(ch, "pending", 0),
                           bonus_acc |-> Field(ch, "bonus_acc", 0),
                           bonus_paid |-> Field(ch, "bonus_paid", 0),
                           bonus_to_dep |-> Field(ch, "bonus_to_dep", 0)]]

\* get_users(): one dict per row of the sheet, in sheet order
GetUsers(r) ==
    SelectSeq([i \in 1..Len(UserIds) |-> [chat_id |-> UserIds[i]] @@ r[UserIds[i]]],
              LAMBDA u : u.present)

\* next((x for x in users if x["chat_id"] == chat_id), None)
HasUser(ua, c) == \E i \in 1..Len(ua) : ua[i].chat_id = c
FindUser(ua, c) == ua[CHOOSE i \in 1..Len(ua) : ua[i].chat_id = c]

\* (a slip: max(0.0, ...) left out)
BonusAvail_unclamped(u) == u.bonus_acc - u.bonus_paid - u.bonus_to_dep

\* max(0.0, u["bonus_acc"] - u["bonus_paid"] - u["bonus_to_dep"])
BonusAvail(u) ==
    IF u.bonus_acc - u.bonus_paid - u.bonus_to_dep > 0
    THEN u.bonus_acc - u.bonus_paid - u.bonus_to_dep ELSE 0

----------------------------------------------------------------------------
(* Marketing_State *)

\* get_state: int(a) if a.strip().isdigit() else 0
GetLastRow(a) == IF a >= 0 THEN a ELSE 0

----------------------------------------------------------------------------
(* BMR_DCA_Log *)

\* sheet_dicts(ws(LOG_SHEET)): the rows below the header
SheetDicts(l) == l

\* (a slip: the header row not counted)
TotalRows_noheader(recs) == Len(recs)

\* total_rows = len(recs) + 1
TotalRows(recs) == Len(recs) + 1

\* if last_row == 0: first run, history is skipped
FirstRun(lr) == lr = 0

\* (a slip: "<" for "<=")
NothingNew_strict(tr, lr) == tr < lr

\* (a slip: "==" for "<=")
NothingNew_equal(tr, lr) == tr = lr

\* if total_rows <= last_row: return
NothingNew(tr, lr) == tr <= lr

\* (a slip: recs[last_row:])
NewRecords_skip(recs, lr) == SubSeq(recs, lr + 1, Len(recs))

\* recs[(last_row - 1):]
NewRecords(recs, lr) == SubSeq(recs, (lr - 1) + 1, Len(recs))

----------------------------------------------------------------------------
(* Cohorts *)

\* (a slip: the deposit test left out)
Recipients_anydep(ua) == SelectSeq(ua, LAMBDA u : u.active)

\* [u for u in users_all if u["active"] and u["deposit"] > 0]
Recipients(ua) == SelectSeq(ua, LAMBDA u : u.active /\ u.deposit > 0)

\* [(u["chat_id"], u["deposit"]) for u in recipients]
SnapshotOf(rcp) == [i \in 1..Len(rcp) |-> <<rcp[i].chat_id, rcp[i].deposit>>]

\* [u["chat_id"] for u in recipients]
IdsOf(rcp) == [i \in 1..Len(rcp) |-> rcp[i].chat_id]

\* {"cum_margin": 0.0, "snapshot": [], "users": []}
EmptyPosition == [cum_margin |-> 0, snapshot |-> <<>>, users |-> <<>>]

\* per_user_msgs.setdefault(uid, []).append(text), for each uid of ids
RECURSIVE PushAll(_, _)
PushAll(msgs, ids) ==
    IF ids = <<>> THEN msgs
    ELSE PushAll(IF \E i \in 1..Len(msgs) : msgs[i] = Head(ids)
                 THEN msgs ELSE Append(msgs, Head(ids)),
                 Tail(ids))

\* if u["active"] and u["pending"] > 0
NeedsCommit(u) == u.active /\ u.pending > 0

\* (a slip: the pending amount added to the deposit)
RECURSIVE CommitLoop_adds(_, _, _)
CommitLoop_adds(r, ua, k) ==
    IF ua = <<>> THEN r
    ELSE IF NeedsCommit(Head(ua))
         THEN IF k = 0 THEN r
              ELSE CommitLoop_adds(Upsert(r, Head(ua).chat_id,
                                     [deposit |-> Head(ua).deposit + Head(ua).pending,
                                      pending |-> 0]),
                                   Tail(ua), k - 1)
         ELSE CommitLoop_adds(r, Tail(ua), k)

\* (a slip: the pending amount added to the deposit and left in its column)
RECURSIVE CommitLoop_again(_, _, _)
CommitLoop_again(r, ua, k) ==
    IF ua = <<>> THEN r
    ELSE IF NeedsCommit(Head(ua))
         THEN IF k = 0 THEN r
              ELSE CommitLoop_again(Upsert(r, Head(ua).chat_id,
                                      [deposit |-> Head(ua).deposit + Head(ua).pending]),
                                    Tail(ua), k - 1)
         ELSE CommitLoop_again(r, Tail(ua), k)

\* the OPEN loop over users_all, stopped by an exception in upsert number k+1
\* (k = Len(ua) lets it run to its end)
RECURSIVE CommitLoop(_, _, _)
CommitLoop(r, ua, k) ==
    IF ua = <<>> THEN r
    ELSE IF NeedsCommit(Head(ua))
         THEN IF k = 0 THEN r
              ELSE CommitLoop(Upsert(r, Head(ua).chat_id,
                                     [deposit |-> Head(ua).pending, pending |-> 0]),
                              Tail(ua), k - 1)
         ELSE CommitLoop(r, Tail(ua), k)

\* (a slip: line 916 left out, the in-memory snapshot keeps the old deposit)
CommitInMemory_none(ua) == ua

\* u["deposit"], u["pending"] = u["pending"], 0.0 on the in-memory snapshot
CommitInMemory(ua) ==
    [i \in 1..Len(ua) |->
        IF NeedsCommit(ua[i])
        THEN [ua[i] EXCEPT !.deposit = ua[i].pending, !.pending = 0]
        ELSE ua[i]]

\* pool30 = pnl_usd * 0.30
Pool30(pnl) == RoundDiv(pnl * SharePct, 100)

\* total_dep_snap = sum(dep for _, dep in snapshot) or 1.0
TotalDepSnap(snapshot) ==
    LET s == SumSeq([i \in 1..Len(snapshot) |-> snapshot[i][2]])
    IN  IF s = 0 THEN 1 ELSE s

\* my_bonus = pool30 * (dep_snap / total_dep_snap)
MyBonus(pool30, dep_snap, total_dep_snap) == RoundDiv(pool30 * dep_snap, total_dep_snap)

\* the close loop over the snapshot, stopped by an exception while member k+1
\* is handled (k = Len(snapshot) lets it run to its end)
RECURSIVE CreditLoop(_, _, _, _, _)
CreditLoop(r, snapshot, pool30, total, k) ==
    IF snapshot = <<>> \/ k = 0 THEN r
    ELSE LET uid == Head(snapshot)[1]
             dep == Head(snapshot)[2]
         IN  IF ~HasUser(GetUsers(r), uid)
             THEN CreditLoop(r, Tail(snapshot), pool30, total, k - 1)
             ELSE CreditLoop(Upsert(r, uid,
                                [bonus_acc |-> FindUser(GetUsers(r), uid).bonus_acc
                                               + MyBonus(pool30, dep, total)]),
                             Tail(snapshot), pool30, total, k - 1)

\* snap = open_positions.get(sid, {}); snap.get("users", []) is empty
CloseFallback(op, sid) == sid \notin DOMAIN op \/ op[sid].users = <<>>

\* (a slip: always the investors active now, at their deposits of now)
CloseSnapshot_current(op, sid, r) == SnapshotOf(Recipients(GetUsers(r)))

\* the snapshot a close row distributes over
CloseSnapshot(op, sid, r) ==
    IF CloseFallback(op, sid) THEN SnapshotOf(Recipients(GetUsers(r)))
    ELSE op[sid].snapshot

\* the members of a snapshot that get_users still finds: each gets its text
CreditedIds(r, snapshot) ==
    SelectSeq([i \in 1..Len(snapshot) |-> snapshot[i][1]],
              LAMBDA c : HasUser(GetUsers(r), c))

\* (a slip: the entry is not deleted)
Without_keep(op, sid) == op

\* del open_positions[sid]
Without(op, sid) == [s \in DOMAIN op \ {sid} |-> op[s]]

----------------------------------------------------------------------------
(* Inputs *)

\* the roster the process finds in the sheet when it starts
Investor(act, dep, pend) ==
    [NoUser EXCEPT !.present = TRUE, !.active = act, !.deposit = dep, !.pending = pend]

InitRosters ==
    { <<NoUser, NoUser>>,
      <<Investor(TRUE, 600, 0), Investor(TRUE, 400, 0)>>,
      <<Investor(TRUE, 600, 300), Investor(TRUE, 0, 400)>>,
      <<Investor(FALSE, 600, 300), Investor(TRUE, 400, 0)>> }

\* the rows the trading bot writes: Cum_Margin_USDT on OPEN and ADD rows,
\* PNL_Realized_USDT on close rows (an empty cell reads as 0.0)
Row(ev, sid, cm, pnl) == [ev |-> ev, sid |-> sid, cum_margin |-> cm, pnl |-> pnl]

LogRows ==
    { Row("OPEN", "S1", 200, 0), Row("OPEN", "S2", 200, 0),
      Row("ADD", "S1", 300, 0), Row("TP_HIT", "S1", 200, 50),
      Row("SL_HIT", "S1", 200, 0 - 20) }

\* the trading bot's rows for one position: OPEN, then ADD or RETEST_ADD rows,
\* then one close row
RECURSIVE IsOpenIn(_, _)
IsOpenIn(l, sid) ==
    IF l = <<>> THEN FALSE
    ELSE IF l[Len(l)].sid = sid THEN l[Len(l)].ev \in OpenEvents \cup AddEvents
    ELSE IsOpenIn(SubSeq(l, 1, Len(l) - 1), sid)

TradeRows(l) ==
    { row \in { Row("OPEN", "S1", 200, 0), Row("OPEN", "S2", 200, 0),
                Row("RETEST_ADD", "S1", 300, 0), Row("TP_HIT", "S1", 200, 50),
                Row("MANUAL_CLOSE", "S1", 200, 0 - 20) } :
        (row.ev \in OpenEvents) = ~IsOpenIn(l, row.sid) }

AddUserDeposits == {500}
SetDepValues == {300}
AddDepositValues == {100}
\* parse_money: "all" gives NaN, a number gives the number
ApplyRequests == {[nan |-> TRUE, value |-> 0]}

NotBegun == [cursor |-> 0, rows |-> 0]

\* no command wrote Pending_Deposit since the latest OPEN row
Unwritten == 0 - 1
NoneWritten == [c \in Users |-> Unwritten]

NoReply == [k |-> 0, chat_id |-> 0, avail |-> 0, raw |-> 0]

\* no update dispatched yet
NoUpdate == [uid |-> 0, cid |-> 0, done |-> TRUE, ledger |-> 0, msgs |-> 0]

NoRow == [n |-> 0, ev |-> "", sid |-> "", pnl |-> 0,
          had |-> FALSE, entered |-> <<>>, stored |-> <<>>, snapshot |-> <<>>,
          prev |-> [c \in Users |-> NoUser], post |-> [c \in Users |-> NoUser]]

----------------------------------------------------------------------------
Init ==
    /\ log = <<>>
    /\ lastRowCell = 0
    /\ profitCell = 0
    /\ roster \in InitRosters
    /\ open_positions = <<>>
    /\ pc = "idle"
    /\ last_row = 0
    /\ total_rows = 0
    /\ profit30_total = 0
    /\ new_records = <<>>
    /\ users_all = <<>>
    /\ per_user_msgs = <<>>
    /\ began = NotBegun
    /\ entry = <<>>
    /\ handled = <<>>
    /\ applied = <<>>
    /\ last = NoRow
    /\ errors = 0
    /\ cmds = 0
    /\ written = NoneWritten
    /\ reply = NoReply
    /\ sends = <<>>
    /\ skipped = 0
    /\ update = NoUpdate

\* the locals of a cycle that has ended
Forget ==
    /\ last_row' = 0
    /\ began' = NotBegun
    /\ total_rows' = 0
    /\ profit30_total' = 0
    /\ new_records' = <<>>
    /\ users_all' = <<>>
    /\ per_user_msgs' = <<>>
    /\ handled' = <<>>
    /\ last' = NoRow
    /\ sends' = <<>>

----------------------------------------------------------------------------
(* The trading bot appends a row to BMR_DCA_Log.  A cycle reads the log once, *)
(* at its start, and runs without a break up to its first await: an append   *)
(* during that stretch is an append at the await.                            *)

AppendLog(rows) ==
    /\ pc \in {"idle", "send"}
    /\ Len(log) < MaxLog
    /\ \E row \in rows :
          log' = Append(log, [n |-> Len(log) + 1] @@ row)
    /\ applied' = Append(applied, 0)
    /\ began' = IF pc = "idle" THEN NotBegun ELSE began
    /\ UNCHANGED <<skipped, update, stateVars, roster, open_positions, pc, localVars,
                   entry, handled, last, errors, cmds, written, reply, sends>>

\* rows are deleted from the end of BMR_DCA_Log (the sheet is not the bot's)
TruncateLog ==
    /\ pc \in {"idle", "send"}
    /\ \E k \in 0..(Len(log) - 1) :
          /\ log' = SubSeq(log, 1, k)
          /\ applied' = SubSeq(applied, 1, k)
    /\ began' = IF pc = "idle" THEN NotBegun ELSE began
    /\ UNCHANGED <<skipped, update, stateVars, roster, open_positions, pc, localVars,
                   entry, handled, last, errors, cmds, written, reply, sends>>

\* a Last_Row cell that get_state reads as 0: empty, or not a digit string
NoDigits == 0 - 1

\* cell A2 of Marketing_State is emptied by hand (the sheet is open to its owner)
ClearLastRow ==
    /\ pc \in {"idle", "send"}
    /\ lastRowCell # NoDigits
    /\ lastRowCell' = NoDigits
    /\ began' = IF pc = "idle" THEN NotBegun ELSE began
    /\ UNCHANGED <<skipped, update, log, profitCell, roster, open_positions, pc, localVars,
                   entry, handled, applied, last, errors, cmds, written, reply, sends>>

----------------------------------------------------------------------------
(* poll_and_broadcast *)

\* lines 888-898: read the state record, the log and the roster
PollStart ==
    /\ pc = "idle"
    /\ LET lr   == GetLastRow(lastRowCell)
           recs == SheetDicts(log)
           tr   == TotalRows(recs)
       IN  IF FirstRun(lr)
           THEN \* set_state(last_row=total_rows, profit30_total=0.0, start_utc=...)
                /\ pc' = "setA"
                /\ began' = [cursor |-> lastRowCell, rows |-> Len(log)]
                /\ last_row' = lr
                /\ total_rows' = tr
                /\ profit30_total' = 0
                /\ skipped' = Len(recs)
                /\ UNCHANGED <<new_records, users_all>>
           ELSE IF NothingNew(tr, lr)
           THEN /\ began' = [cursor |-> lastRowCell, rows |-> Len(log)]
                /\ UNCHANGED <<pc, last_row, total_rows, profit30_total,
                               new_records, users_all, skipped>>
           ELSE /\ pc' = "rows"
                /\ began' = [cursor |-> lastRowCell, rows |-> Len(log)]
                /\ last_row' = lr
                /\ total_rows' = tr
                /\ profit30_total' = profitCell
                /\ new_records' = NewRecords(recs, lr)
                /\ users_all' = GetUsers(roster)
                /\ skipped' = skipped
    /\ UNCHANGED <<update, log, stateVars, roster, open_positions, per_user_msgs,
                   entry, handled, applied, last, errors, cmds, written, reply, sends>>

\* get_state, sheet_dicts or get_users raises: nothing was written
PollStartRaise ==
    /\ pc = "idle"
    /\ errors < MaxErrors
    /\ errors' = errors + 1
    /\ began' = NotBegun
    /\ UNCHANGED <<skipped, update, log, stateVars, roster, open_positions, pc, localVars,
                   entry, handled, applied, last, cmds, written, reply, sends>>

\* the row the for loop of line 903 is at
Rec == Head(new_records)

Stored(op, sid) == IF sid \in DOMAIN op THEN op[sid] ELSE EmptyPosition

Bump(a, n, yes) == IF yes THEN [a EXCEPT ![n] = @ + 1] ELSE a

\* history of a row handled to its end: whether an OPEN of its signal had been
\* handled and which cohort that recorded, the snapshot stored for the signal
\* before the row, the snapshot stored (OPEN, ADD) or distributed over (close)
\* by the row, the roster before and after
RowDone(rec, snapshot, r) ==
    [n |-> rec.n, ev |-> rec.ev, sid |-> rec.sid, pnl |-> rec.pnl,
     had |-> rec.sid \in DOMAIN entry,
     entered |-> IF rec.sid \in DOMAIN entry THEN entry[rec.sid] ELSE <<>>,
     stored |-> Stored(open_positions, rec.sid).snapshot,
     snapshot |-> snapshot, prev |-> roster, post |-> r]

\* an exception ends the cycle at line 999: the locals are gone, the sheets and
\* open_positions keep what was written
Raise ==
    /\ errors < MaxErrors
    /\ errors' = errors + 1
    /\ pc' = "idle"
    /\ Forget

\* lines 911-930: an OPEN row
HandleOpen ==
    /\ pc = "rows" /\ new_records # <<>> /\ Rec.ev \in OpenEvents
    /\ LET fresh      == GetUsers(roster)
           committed  == CommitLoop(roster, fresh, Len(fresh))
           recipients == Recipients(CommitInMemory(fresh))
           position   == [cum_margin |-> Rec.cum_margin,
                          snapshot |-> SnapshotOf(recipients),
                          users |-> IdsOf(recipients)]
       IN  /\ roster' = committed
           /\ users_all' = CommitInMemory(fresh)
           /\ open_positions' = (Rec.sid :> position) @@ open_positions
           /\ per_user_msgs' = PushAll(per_user_msgs, IdsOf(recipients))
           /\ entry' = (Rec.sid :> position.snapshot) @@ entry
           /\ last' = RowDone(Rec, position.snapshot, committed)
    /\ new_records' = Tail(new_records)
    /\ handled' = Append(handled, Rec.n)
    /\ applied' = Bump(applied, Rec.n, TRUE)
    /\ written' = NoneWritten
    /\ UNCHANGED <<skipped, update, log, stateVars, pc, last_row, total_rows, profit30_total,
                   began, errors, cmds, reply, sends>>

\* get_users (k = 0) or an upsert_user_row of the OPEN loop raises
HandleOpenRaise ==
    /\ pc = "rows" /\ new_records # <<>> /\ Rec.ev \in OpenEvents
    /\ LET fresh == GetUsers(roster)
           n     == Len(SelectSeq(fresh, NeedsCommit))
       IN  \E k \in 0..(IF n = 0 THEN 0 ELSE n - 1) :
              /\ roster' = CommitLoop(roster, fresh, k)
              /\ applied' = Bump(applied, Rec.n, k > 0)
    /\ Raise
    /\ UNCHANGED <<skipped, update, log, stateVars, open_positions, entry, cmds, written, reply>>

\* lines 932-943: an ADD or RETEST_ADD row
HandleAdd ==
    /\ pc = "rows" /\ new_records # <<>> /\ Rec.ev \in AddEvents
    /\ LET snap0 == [Stored(open_positions, Rec.sid) EXCEPT !.cum_margin = Rec.cum_margin]
           snap  == IF snap0.users = <<>>
                    THEN [snap0 EXCEPT !.users = IdsOf(Recipients(users_all)),
                                       !.snapshot = SnapshotOf(Recipients(users_all))]
                    ELSE snap0
       IN  /\ open_positions' = (Rec.sid :> snap) @@ open_positions
           /\ per_user_msgs' = PushAll(per_user_msgs, snap.users)
           /\ last' = RowDone(Rec, snap.snapshot, roster)
    /\ new_records' = Tail(new_records)
    /\ handled' = Append(handled, Rec.n)
    /\ applied' = Bump(applied, Rec.n, TRUE)
    /\ UNCHANGED <<skipped, update, log, stateVars, roster, pc, last_row, total_rows, profit30_total,
                   users_all, began, entry, errors, cmds, written, reply, sends>>

\* lines 945-993: a TP_HIT, SL_HIT or MANUAL_CLOSE row
HandleClose ==
    /\ pc = "rows" /\ new_records # <<>> /\ Rec.ev \in CloseEvents
    /\ \E snapshot \in {CloseSnapshot(open_positions, Rec.sid, roster)},
          pool30 \in {Pool30(Rec.pnl)} :
       \E paid \in {CreditLoop(roster, snapshot, pool30, TotalDepSnap(snapshot),
                               Len(snapshot))} :
           /\ users_all' = IF CloseFallback(open_positions, Rec.sid)
                           THEN GetUsers(roster) ELSE users_all
           /\ profit30_total' = profit30_total + pool30
           /\ roster' = paid
           /\ per_user_msgs' = PushAll(per_user_msgs, CreditedIds(roster, snapshot))
           /\ last' = RowDone(Rec, snapshot, paid)
    /\ open_positions' = Without(open_positions, Rec.sid)
    /\ entry' = Without(entry, Rec.sid)
    /\ new_records' = Tail(new_records)
    /\ handled' = Append(handled, Rec.n)
    /\ applied' = Bump(applied, Rec.n, TRUE)
    /\ UNCHANGED <<skipped, update, log, stateVars, pc, last_row, total_rows, began, errors, cmds,
                   written, reply, sends>>

\* a get_users (k members credited so far) or an upsert_user_row of the close
\* loop raises, or the get_users of the fallback does (k = 0)
HandleCloseRaise ==
    /\ pc = "rows" /\ new_records # <<>> /\ Rec.ev \in CloseEvents
    /\ LET snapshot == CloseSnapshot(open_positions, Rec.sid, roster)
           n        == Len(snapshot)
       IN  \E k \in 0..(IF n = 0 THEN 0 ELSE n - 1) :
              /\ roster' = CreditLoop(roster, snapshot, Pool30(Rec.pnl),
                                      TotalDepSnap(snapshot), k)
              /\ applied' = Bump(applied, Rec.n, k > 0)
    /\ Raise
    /\ UNCHANGED <<skipped, update, log, stateVars, open_positions, entry, cmds, written, reply>>

\* lines 995-997: the for loop is over
EndOfBatch ==
    /\ pc = "rows" /\ new_records = <<>>
    /\ pc' = IF per_user_msgs # <<>> THEN "send" ELSE "setA"
    /\ UNCHANGED <<log, stateVars, roster, open_positions, localVars, histVars>>

\* send_all: the send to the next recipient returns or fails (the failure is
\* caught at line 883); the handler was suspended at its await meanwhile
Sent(ok) ==
    /\ pc = "send"
    /\ per_user_msgs' = Tail(per_user_msgs)
    /\ sends' = Append(sends, [chat_id |-> Head(per_user_msgs), ok |-> ok])
    /\ pc' = IF Tail(per_user_msgs) = <<>> THEN "setA" ELSE "send"
    /\ UNCHANGED <<skipped, update, log, stateVars, roster, open_positions, last_row, total_rows,
                   profit30_total, new_records, users_all, began, entry, handled,
                   applied, last, errors, cmds, written, reply>>

Send == Sent(TRUE)

\* (a slip: no try around send_message, the exception ends the cycle)
SendFails_uncaught ==
    /\ pc = "send"
    /\ Raise
    /\ UNCHANGED <<skipped, update, log, stateVars, roster, open_positions, entry, applied, cmds,
                   written, reply>>

\* send_message raises (a blocked chat), lines 883-884 log it
SendFails == Sent(FALSE)

\* (a slip: the row count of the log as it is when set_state runs)
WriteLastRow_now ==
    /\ pc = "setA"
    /\ lastRowCell' = TotalRows(SheetDicts(log))
    /\ pc' = "setC"
    /\ UNCHANGED <<log, profitCell, roster, open_positions, localVars, histVars>>

\* (a slip: set_state(last_row=last_row, ...), the cursor the cycle began with)
WriteLastRow_stay ==
    /\ pc = "setA"
    /\ lastRowCell' = last_row
    /\ pc' = "setC"
    /\ UNCHANGED <<log, profitCell, roster, open_positions, localVars, histVars>>

\* set_state, line 215: w.update_acell("A2", str(last_row))
WriteLastRow ==
    /\ pc = "setA"
    /\ lastRowCell' = total_rows
    /\ pc' = "setC"
    /\ UNCHANGED <<log, profitCell, roster, open_positions, localVars, histVars>>

\* set_state, line 217: w.update_acell("C2", str(profit30_total)); the cycle ends
WriteProfit ==
    /\ pc = "setC"
    /\ profitCell' = profit30_total
    /\ pc' = "idle"
    /\ Forget
    /\ UNCHANGED <<skipped, update, log, lastRowCell, roster, open_positions, entry, applied, errors, cmds, written, reply>>

\* set_state raises: at the write of A2, or with A2 written at the write of B2 or C2
SetStateRaise ==
    /\ pc \in {"setA", "setC"}
    /\ Raise
    /\ UNCHANGED <<skipped, update, log, stateVars, roster, open_positions, entry, applied, cmds, written, reply>>

----------------------------------------------------------------------------
(* Commands.  A handler runs between two awaits of the poll cycle or while   *)
(* none is in flight; its sheet reads and writes are not interrupted.       *)

Serving == pc \in {"idle", "send"} /\ cmds < MaxCmds

\* the handler of the latest update has run past its guards: it appended rows
\* rows to Marketing_Ledger and answered the sender
Handled(rows) == [update EXCEPT !.done = TRUE, !.ledger = rows, !.msgs = 1]

\* a handler that writes the roster and sends its answer
Done(rows) ==
    /\ cmds' = cmds + 1
    /\ reply' = reply
    /\ update' = Handled(rows)
    /\ began' = IF pc = "idle" THEN NotBegun ELSE began
    /\ UNCHANGED <<skipped, log, stateVars, open_positions, pc, localVars,
                   entry, handled, applied, last, errors, sends>>

\* no append_ledger in the handler
Served == Done(0)

\* one append_ledger in the handler
Booked == Done(1)

\* /adduser <chat_id> <name> <dep>, line 693
adduser(c, dep) ==
    /\ Serving
    /\ roster' = Upsert(roster, c, [deposit |-> dep, active |-> TRUE])
    /\ written' = written
    /\ Served

\* /setdep <chat_id> <dep>, line 716
setdep(c, dep) ==
    /\ Serving
    /\ roster' = Upsert(roster, c, [pending |-> dep])
    /\ written' = [written EXCEPT ![c] = dep]
    /\ Served

\* /remove <chat_id>, line 742
remove(c) ==
    /\ Serving
    /\ roster' = Upsert(roster, c, [active |-> FALSE])
    /\ written' = written
    /\ Served

\* /add_deposit <add> sent from chat c, lines 443-456
add_deposit(c, add) ==
    /\ Serving
    /\ add > 0
    /\ LET users  == GetUsers(roster)
           target == IF ~HasUser(users, c) THEN add ELSE FindUser(users, c).deposit + add
       IN  /\ roster' = IF ~HasUser(users, c)
                        THEN Upsert(roster, c, [active |-> FALSE, pending |-> target])
                        ELSE Upsert(roster, c, [pending |-> target])
           /\ written' = [written EXCEPT ![c] = target]
    /\ Booked

\* /pay_all <chat_id>, lines 855-861
pay_all(c) ==
    /\ Serving
    /\ LET users == GetUsers(roster)
       IN  /\ HasUser(users, c)
           /\ LET u == FindUser(users, c)
              IN  roster' = Upsert(roster, c,
                               [deposit |-> 0, active |-> FALSE,
                                bonus_paid |-> u.bonus_paid + BonusAvail(u)])
    /\ written' = written
    /\ Booked

\* /apply_from_bonus <chat_id> <amount|all>, lines 808-817
apply_from_bonus(c, req) ==
    /\ Serving
    /\ LET users == GetUsers(roster)
       IN  /\ HasUser(users, c)
           /\ LET u      == FindUser(users, c)
                  avail  == BonusAvail(u)
                  amount == IF req.nan THEN avail ELSE req.value
              IN  /\ ~(amount <= 0 \/ amount > avail)
                  /\ roster' = Upsert(roster, c,
                                  [pending |-> u.deposit + amount,
                                   bonus_to_dep |-> u.bonus_to_dep + amount])
                  /\ written' = [written EXCEPT ![c] = u.deposit + amount]
    /\ Booked

\* /add_from_bonus <amount|all> sent from chat c, lines 485-498
add_from_bonus(c, req) ==
    /\ Serving
    /\ LET users == GetUsers(roster)
       IN  /\ HasUser(users, c)
           /\ LET u      == FindUser(users, c)
                  avail  == BonusAvail(u)
                  amount == IF req.nan THEN avail ELSE req.value
              IN  /\ ~(amount <= 0 \/ amount > avail)
                  /\ roster' = Upsert(roster, c, [pending |-> u.deposit + amount])
                  /\ written' = [written EXCEPT ![c] = u.deposit + amount]
    /\ Booked

\* a handler that writes no roster column: the k-th command computed avail for
\* chat c, whose accrued - paid - reinvested was raw
Replied(c, u, rows) ==
    /\ Serving
    /\ cmds' = cmds + 1
    /\ update' = Handled(rows)
    /\ reply' = [k |-> cmds + 1, chat_id |-> c, avail |-> BonusAvail(u),
                 raw |-> u.bonus_acc - u.bonus_paid - u.bonus_to_dep]
    /\ began' = IF pc = "idle" THEN NotBegun ELSE began
    /\ UNCHANGED <<skipped, log, stateVars, roster, open_positions, pc, localVars,
                   entry, handled, applied, last, errors, written, sends>>

\* /balance sent from chat c, lines 408-413
balance(c) ==
    /\ HasUser(GetUsers(roster), c)
    /\ FindUser(GetUsers(roster), c).active
    /\ Replied(c, FindUser(GetUsers(roster), c), 0)

\* /withdraw_bonus <amount|all> sent from chat c (a wallet is set), lines 528-541
withdraw_bonus(c, req) ==
    /\ HasUser(GetUsers(roster), c)
    /\ LET u      == FindUser(GetUsers(roster), c)
           amount == IF req.nan THEN BonusAvail(u) ELSE req.value
       IN  /\ ~(amount <= 0 \/ amount > BonusAvail(u))
           /\ Replied(c, u, 1)

\* /withdraw_all sent from chat c (a wallet is set), lines 568-574
withdraw_all(c) ==
    /\ HasUser(GetUsers(roster), c)
    /\ Replied(c, FindUser(GetUsers(roster), c), 1)

\* (a slip: the row is written back whole from the get_users of the poll cycle,
\* read before the cycle's credits)
pay_bonus_stale(c, req) ==
    /\ Serving
    /\ LET users == GetUsers(roster)
       IN  /\ HasUser(users, c)
           /\ LET u      == FindUser(users, c)
                  old    == IF HasUser(users_all, c) THEN FindUser(users_all, c) ELSE u
                  avail  == BonusAvail(u)
                  amount == IF req.nan THEN avail ELSE req.value
              IN  /\ ~(amount <= 0 \/ amount > avail)
                  /\ roster' = Upsert(roster, c, [bonus_acc |-> old.bonus_acc,
                                                  bonus_paid |-> u.bonus_paid + amount])
    /\ written' = written
    /\ Booked

\* /pay_bonus <chat_id> <amount|all>, lines 830-837
pay_bonus(c, req) ==
    /\ Serving
    /\ LET users == GetUsers(roster)
       IN  /\ HasUser(users, c)
           /\ LET u      == FindUser(users, c)
                  avail  == BonusAvail(u)
                  amount == IF req.nan THEN avail ELSE req.value
              IN  /\ ~(amount <= 0 \/ amount > avail)
                  /\ roster' = Upsert(roster, c, [bonus_paid |-> u.bonus_paid + amount])
    /\ written' = written
    /\ Booked

\* /setname <chat_id> <name>, line 733 (the name is no column of the model)
setname_admin(c) ==
    /\ Serving
    /\ roster' = Upsert(roster, c, [name |-> "name"])
    /\ written' = written
    /\ Served

\* /list, lines 751-758
list_users ==
    /\ Serving
    /\ UNCHANGED <<roster, written>>
    /\ Served

\* /approve_wallet <chat_id> with a wallet request pending, lines 766-777 (the
\* wallet is no column of the model)
approve_wallet(c) ==
    /\ Serving
    /\ HasUser(GetUsers(roster), c)
    /\ roster' = Upsert(roster, c, [w_addr |-> "w_p_addr"])
    /\ written' = written
    /\ Booked

\* /reject_wallet <chat_id>, lines 788-797
reject_wallet(c) ==
    /\ Serving
    /\ roster' = Upsert(roster, c, [w_p_addr |-> ""])
    /\ written' = written
    /\ Booked

\* an admin handler answers with its usage line or a refusal ("not found",
\* "insufficient funds") and returns, e.g. lines 692, 714, 810, 814
Refusal ==
    /\ Serving
    /\ UNCHANGED <<roster, written>>
    /\ Served

----------------------------------------------------------------------------
(* Who sends a command *)

\* ADMIN_IDS = parse_admin_ids(os.getenv("ADMIN_IDS", ""))
ADMIN_IDS == {7}

\* the user ids and chat ids an update may carry
SenderIds == {1, 7}

\* (a slip: "not in" for "in")
is_admin_not(uid, cid) == (uid \notin ADMIN_IDS) \/ (cid \notin ADMIN_IDS)

\* return (uid in ADMIN_IDS) or (cid in ADMIN_IDS)
is_admin(uid, cid) == (uid \in ADMIN_IDS) \/ (cid \in ADMIN_IDS)

\* Telegram delivers an update with an admin command; its handler runs next
Arrive(uid, cid) ==
    /\ Serving
    /\ update.done
    /\ update' = [uid |-> uid, cid |-> cid, done |-> FALSE, ledger |-> 0, msgs |-> 0]
    /\ began' = IF pc = "idle" THEN NotBegun ELSE began
    /\ UNCHANGED <<skipped, log, stateVars, roster, open_positions, pc, localVars,
                   entry, handled, applied, last, errors, cmds, written, reply, sends>>

\* if not is_admin(update): return
Return ==
    /\ Serving
    /\ cmds' = cmds + 1
    /\ update' = [update EXCEPT !.done = TRUE]
    /\ began' = IF pc = "idle" THEN NotBegun ELSE began
    /\ UNCHANGED <<skipped, log, stateVars, roster, open_positions, pc, localVars,
                   entry, handled, applied, last, errors, written, reply, sends>>

\* the bodies of the handlers behind the is_admin guard
AdminBody ==
    \/ \E c \in Users :
          \/ \E dep \in AddUserDeposits : adduser(c, dep)
          \/ \E dep \in SetDepValues : setdep(c, dep)
          \/ setname_admin(c)
          \/ remove(c)
          \/ approve_wallet(c)
          \/ reject_wallet(c)
          \/ \E req \in ApplyRequests : apply_from_bonus(c, req)
          \/ \E req \in ApplyRequests : pay_bonus(c, req)
          \/ pay_all(c)
    \/ list_users
    \/ Refusal

\* an admin command handler, from its first line
AdminHandler ==
    /\ ~update.done
    /\ IF is_admin(update.uid, update.cid) THEN AdminBody ELSE Return

----------------------------------------------------------------------------
Handle == HandleOpen \/ HandleAdd \/ HandleClose

SetState == WriteLastRow \/ WriteProfit

Command ==
    \E c \in Users :
        \/ \E dep \in AddUserDeposits : adduser(c, dep)
        \/ \E dep \in SetDepValues : setdep(c, dep)
        \/ remove(c)
        \/ \E add \in AddDepositValues : add_deposit(c, add)
        \/ pay_all(c)
        \/ \E req \in ApplyRequests : apply_from_bonus(c, req)

\* the poller alone, any gspread call of it raising
Next ==
    \/ AppendLog(LogRows)
    \/ PollStart \/ Handle \/ EndOfBatch \/ Send \/ SetState
    \/ PollStartRaise \/ HandleOpenRaise \/ HandleCloseRaise \/ SetStateRaise

Spec == Init /\ [][Next]_vars

\* the poller and the roster commands, no gspread call raising
NextRoster ==
    \/ AppendLog(TradeRows(log))
    \/ PollStart \/ Handle \/ EndOfBatch \/ Send \/ SetState
    \/ Command

SpecRoster == Init /\ [][NextRoster]_vars

\* the poller, the roster commands and a log that also loses rows
ShrinkRows == { Row("OPEN", "S1", 200, 0), Row("TP_HIT", "S1", 200, 50) }

NextShrink ==
    \/ AppendLog(ShrinkRows) \/ TruncateLog
    \/ PollStart \/ HandleOpen \/ HandleClose \/ EndOfBatch \/ Send \/ SetState
    \/ PollStartRaise \/ HandleOpenRaise \/ HandleCloseRaise \/ SetStateRaise
    \/ remove(1)

InitShrink ==
    /\ Init
    /\ roster = <<Investor(TRUE, 600, 0), Investor(TRUE, 400, 0)>>

SpecShrink == InitShrink /\ [][NextShrink]_vars

\* the poller alone, any gspread call and any send of it raising
NextSend == Next \/ SendFails

SpecSend == Init /\ [][NextSend]_vars

\* the poller and the commands that write Pending_Deposit and the bonus
\* columns, no gspread call raising; a close row may come for a signal with no
\* stored cohort
BonusRows ==
    { Row("OPEN", "S1", 200, 0), Row("TP_HIT", "S1", 200, 50),
      Row("SL_HIT", "S1", 200, 0 - 20) }

PendingValues == {0, 300}
PayRequests == {[nan |-> TRUE, value |-> 0], [nan |-> FALSE, value |-> 5]}

BonusCommand ==
    \E c \in Users :
        \/ \E dep \in PendingValues : setdep(c, dep)
        \/ \E add \in AddUserDeposits : add_deposit(c, add)
        \/ \E req \in ApplyRequests : add_from_bonus(c, req)
        \/ \E req \in ApplyRequests : apply_from_bonus(c, req)
        \/ \E req \in PayRequests : pay_bonus(c, req)
        \/ pay_all(c)

NextBonus ==
    \/ AppendLog(BonusRows)
    \/ PollStart \/ HandleOpen \/ HandleClose \/ EndOfBatch \/ Send \/ SetState
    \/ BonusCommand

SpecBonus == Init /\ [][NextBonus]_vars

\* the poller alone on one position's rows, any gspread call of it raising
LiveRows == { Row("OPEN", "S1", 200, 0), Row("TP_HIT", "S1", 200, 50) }

NextLive ==
    \/ AppendLog(LiveRows)
    \/ PollStart \/ HandleOpen \/ HandleClose \/ EndOfBatch \/ Send \/ SetState
    \/ PollStartRaise \/ HandleOpenRaise \/ HandleCloseRaise \/ SetStateRaise

\* the scheduling of the poller: run_repeating (line 1048) keeps starting
\* cycles, and a cycle that has begun runs on, to its end or to an exception;
\* of the exceptions there are finitely many
Fairness ==
    /\ WF_vars(PollStart)
    /\ WF_vars(HandleOpen \/ HandleClose)
    /\ WF_vars(EndOfBatch \/ Send \/ SetState)

SpecLive == Init /\ [][NextLive]_vars /\ Fairness

\* two active investors with no pending deposit, one position opened and
\* closed again and again, and the two handlers of the bonus-to-deposit path
StartRoster == <<Investor(TRUE, 600, 0), Investor(TRUE, 400, 0)>>

ReinvestRows == { Row("OPEN", "S1", 200, 0), Row("TP_HIT", "S1", 200, 50) }

ReinvestCommand ==
    \E c \in Users :
        \/ \E req \in PayRequests : add_from_bonus(c, req)
        \/ \E req \in PayRequests : apply_from_bonus(c, req)

NextReinvest ==
    \/ AppendLog(ReinvestRows)
    \/ PollStart \/ HandleOpen \/ HandleClose \/ EndOfBatch \/ Send \/ SetState
    \/ ReinvestCommand

InitReinvest == Init /\ roster = StartRoster

SpecReinvest == InitReinvest /\ [][NextReinvest]_vars

\* /setdep the only command, on any roster the process may find
NextSetdep ==
    \/ AppendLog(BonusRows)
    \/ PollStart \/ HandleOpen \/ HandleClose \/ EndOfBatch \/ Send \/ SetState
    \/ \E c \in Users : \E dep \in PendingValues : setdep(c, dep)

SpecSetdep == Init /\ [][NextSetdep]_vars

\* the poller, any gspread call of it raising, and the cursor cell emptied
NextFirstRun == Next \/ ClearLastRow

SpecFirstRun == Init /\ [][NextFirstRun]_vars

\* admin commands from any sender, one position's rows, no gspread call raising
NextAdmin ==
    \/ AppendLog(LiveRows)
    \/ PollStart \/ HandleOpen \/ HandleClose \/ EndOfBatch \/ Send \/ SetState
    \/ \E uid \in SenderIds, cid \in SenderIds : Arrive(uid, cid)
    \/ AdminHandler

SpecAdmin == Init /\ [][NextAdmin]_vars

\* close rows of either sign and every handler that computes the available
\* bonus, no gspread call raising
AvailRows == { Row("TP_HIT", "S1", 200, 50), Row("SL_HIT", "S1", 200, 0 - 20) }

AvailCommand ==
    \E c \in Users :
        \/ balance(c)
        \/ \E req \in ApplyRequests : withdraw_bonus(c, req)
        \/ withdraw_all(c)
        \/ \E req \in ApplyRequests : add_from_bonus(c, req)
        \/ \E req \in ApplyRequests : apply_from_bonus(c, req)
        \/ \E req \in PayRequests : pay_bonus(c, req)
        \/ pay_all(c)

NextAvail ==
    \/ AppendLog(AvailRows)
    \/ PollStart \/ HandleClose \/ EndOfBatch \/ Send \/ SetState
    \/ AvailCommand

SpecAvail == Init /\ [][NextAvail]_vars

----------------------------------------------------------------------------
(* Properties *)

InFlight == pc \in {"rows", "send", "setA", "setC"}

\* what the latest row handling added to an investor's Bonus_Accrued
Credited(c) == last.post[c].bonus_acc - last.prev[c].bonus_acc

TotalCredited == SumSeq([i \in 1..Len(UserIds) |-> Credited(UserIds[i])])

SnapshotIds(snapshot) == { snapshot[i][1] : i \in 1..Len(snapshot) }

SnapshotTotal(snapshot) == SumSeq([i \in 1..Len(snapshot) |-> snapshot[i][2]])

\* C1: every event-log row has its effects applied at most once, whatever
\* cycles abort and are retried.
C1_AppliedAtMostOnce == \A i \in 1..Len(applied) : applied[i] <= 1

\* C2: a cycle that ends in an exception leaves the persisted cursor at the
\* value the cycle found.
C2_AbortKeepsCursor ==
    [][errors' # errors =>
          lastRowCell' = (IF pc = "idle" THEN lastRowCell ELSE began.cursor)]_vars

\* C3: a cycle that finds the persisted cursor equal to the log's row count
\* (header included) ends at once: no send, no roster write, open_positions,
\* cursor and profit counter as they were.
C3_ConvergedCycleIsNoOp ==
    [][(/\ pc = "idle"
        /\ lastRowCell = Len(log) + 1
        /\ log' = log /\ errors' = errors /\ cmds' = cmds)
       => /\ pc' = "idle"
          /\ UNCHANGED <<lastRowCell, profitCell, roster, open_positions,
                         per_user_msgs>>]_vars

\* a cycle that found nothing new has just ended, after rows had been handled
C3_Witness ==
    /\ pc = "idle"
    /\ began # NotBegun
    /\ began.cursor = began.rows + 1
    /\ lastRowCell = began.cursor
    /\ \E i \in 1..Len(applied) : applied[i] > 0

\* C4: the rows a cycle handles are the data rows from position c (c the
\* persisted cursor, which counts the header) to the end of the log as read, in
\* increasing order, none skipped.
C4_BatchIsLogTail ==
    (InFlight /\ began.cursor # 0) =>
        /\ \A i \in 1..Len(handled) : handled[i] = began.cursor + i - 1
        /\ pc # "rows" => Len(handled) = began.rows - began.cursor + 1

C4_Witness ==
    /\ pc = "setA"
    /\ began.cursor >= 2
    /\ Len(handled) >= 2

\* C5: the persisted cursor never decreases.
C5_CursorMonotone == [][lastRowCell' >= lastRowCell]_vars

\* a cycle has just found a log shorter than the cursor, after an exception
C5_Witness ==
    /\ pc = "idle"
    /\ began # NotBegun
    /\ began.rows + 1 < began.cursor
    /\ lastRowCell = began.cursor
    /\ errors > 0

IsClose == last.ev \in CloseEvents

\* C6: when the close row of a signal whose OPEN was handled is handled, the
\* amounts added to the investors' Bonus_Accrued sum to PnL x 0.30, up to the
\* rounding of the pool and of each share.
C6_SharesSumToPool ==
    (IsClose /\ last.had) =>
        Abs(100 * TotalCredited - SharePct * last.pnl) <= 50 * (Len(UserIds) + 1)

\* C7: on a close row each member of the cohort recorded at OPEN that has a
\* roster row is credited pool x (entry deposit / sum of entry deposits), up to
\* rounding; A (600) and B (400) at OPEN and a close with PnL 50 give 9 and 6.
C7_ShareByEntryDeposit ==
    (IsClose /\ last.had /\ last.entered # <<>>) =>
        /\ \A i \in 1..Len(last.entered) :
              LET c   == last.entered[i][1]
                  dep == last.entered[i][2]
                  T   == SnapshotTotal(last.entered)
              IN  last.prev[c].present =>
                     Abs(100 * T * Credited(c) - SharePct * last.pnl * dep) <= 100 * T
        /\ (/\ last.entered = <<<<1, 600>>, <<2, 400>>>>
            /\ last.pnl = 50
            /\ last.prev[1].present /\ last.prev[2].present)
           => Credited(1) = 9 /\ Credited(2) = 6

\* A and B entered at 600 and 400, A's deposit was changed while the position
\* was open, the close credited 9 and 6
C7_Witness ==
    /\ last.ev = "TP_HIT" /\ last.had
    /\ last.entered = <<<<1, 600>>, <<2, 400>>>>
    /\ last.prev[1].present /\ last.prev[1].deposit # 600
    /\ Credited(1) = 9 /\ Credited(2) = 6

\* C8: the close of a signal whose OPEN was handled credits the cohort recorded
\* at that OPEN at the deposits recorded then, whatever the roster commands in
\* between, and credits nothing to anyone else.
C8_CohortFixedAtOpen ==
    (IsClose /\ last.had) =>
        /\ last.snapshot = last.entered
        /\ \A c \in Users : c \notin SnapshotIds(last.entered) => Credited(c) = 0

\* C9: an ADD or RETEST_ADD row of a signal whose OPEN was handled leaves the
\* signal's stored cohort and deposit snapshot as they were.
C9_AddKeepsCohort ==
    (last.ev \in AddEvents /\ last.had) =>
        /\ last.snapshot = last.stored
        /\ last.snapshot = last.entered

\* C10: an OPEN row gives every active investor with pending P > 0 deposit P and
\* pending 0 and leaves every other investor's row as it was; no abort of the
\* cycle changes a deposit or a pending amount except by such a commit.
Committed(u) == [u EXCEPT !.deposit = u.pending, !.pending = 0]

Due(u) == u.present /\ u.active /\ u.pending > 0

C10_OpenCommitsPending ==
    [][/\ (pc = "rows" /\ handled' # handled /\ last'.ev \in OpenEvents)
          => \A c \in Users :
                roster'[c] = IF Due(roster[c]) THEN Committed(roster[c]) ELSE roster[c]
       /\ errors' # errors
          => \A c \in Users :
                \/ roster'[c].deposit = roster[c].deposit
                   /\ roster'[c].pending = roster[c].pending
                \/ Due(roster[c]) /\ roster'[c] = Committed(roster[c])]_vars

\* the cycle that handled the OPEN row aborted: the commits are in the roster,
\* the cursor is still before the row
C10_Witness ==
    /\ pc = "idle" /\ errors > 0
    /\ \E i \in 1..Len(log) :
          log[i].ev \in OpenEvents /\ applied[i] > 0 /\ lastRowCell <= i /\ lastRowCell > 0
    /\ roster[1].deposit = 300 /\ roster[1].pending = 0
    /\ roster[2].deposit = 400 /\ roster[2].pending = 0

IsOpen == last.ev \in OpenEvents

\* the investors of roster r that are active with a positive deposit, each
\* with that deposit, in sheet order
ActiveNow(r) ==
    LET ids == SelectSeq(UserIds, LAMBDA c : r[c].present /\ r[c].active /\ r[c].deposit > 0)
    IN  [i \in 1..Len(ids) |-> <<ids[i], r[ids[i]].deposit>>]

\* C11: the cohort an OPEN row stores for its signal is the investors active
\* with deposit > 0 in the roster as the row's pending commit left it, each at
\* that deposit.
C11_CohortIsPostCommitRoster ==
    IsOpen =>
        /\ last.snapshot = ActiveNow(last.post)
        /\ last.sid \in DOMAIN open_positions
        /\ open_positions[last.sid].snapshot = last.snapshot
        /\ open_positions[last.sid].users =
              [i \in 1..Len(last.snapshot) |-> last.snapshot[i][1]]

\* an OPEN committed pending 300 over deposit 600 and pending 400 over deposit
\* 0: both investors are in the cohort at the new deposits
C11_Witness ==
    /\ IsOpen
    /\ last.prev[1].deposit = 600 /\ last.prev[1].pending = 300
    /\ last.prev[2].deposit = 0 /\ last.prev[2].pending = 400
    /\ last.snapshot = <<<<1, 300>>, <<2, 400>>>>

RowHandled == handled' # handled

\* C12: handling a close row leaves no open_positions entry for its signal, and
\* a signal gets an entry only by the handling of an OPEN, ADD or RETEST_ADD row
\* of it; so the signals with an entry are among those whose latest handled row
\* is an OPEN, ADD or RETEST_ADD.
C12_ClosedSignalHasNoEntry ==
    [][/\ (RowHandled /\ last'.ev \in CloseEvents)
          => last'.sid \notin DOMAIN open_positions'
       /\ \A sid \in DOMAIN open_positions' \ DOMAIN open_positions :
             /\ RowHandled
             /\ last'.ev \in OpenEvents \cup AddEvents
             /\ last'.sid = sid
       /\ (RowHandled /\ last'.ev \notin CloseEvents)
          => DOMAIN open_positions \subseteq DOMAIN open_positions'
       /\ ~RowHandled => open_positions' = open_positions]_vars

\* between batches: S1 was opened and closed and has no entry, S2 is open
C12_Witness ==
    /\ pc = "idle"
    /\ DOMAIN open_positions = {"S2"}
    /\ \E i, j \in 1..Len(log) :
          /\ i < j /\ j < lastRowCell
          /\ log[i].sid = "S1" /\ log[i].ev \in OpenEvents
          /\ log[j].sid = "S1" /\ log[j].ev \in CloseEvents

\* a close or ADD row found no cohort stored for its signal
NoCohort == last.ev \in AddEvents \cup CloseEvents /\ last.stored = <<>>

\* C13: a close or ADD/RETEST_ADD row that finds no cohort stored for its
\* signal uses the investors active with deposit > 0 when it is handled, at
\* their deposits of then; a close credits them by these weights, and the
\* cursor written by the cycle covers the row.
C13_FallbackIsActiveNow ==
    NoCohort =>
        /\ last.snapshot = ActiveNow(last.prev)
        /\ last.ev \in AddEvents =>
              /\ last.sid \in DOMAIN open_positions
              /\ open_positions[last.sid].snapshot = last.snapshot
        /\ last.ev \in CloseEvents =>
              \A c \in Users :
                 IF c \in SnapshotIds(last.snapshot)
                 THEN Abs(100 * SnapshotTotal(last.snapshot) * Credited(c)
                          - SharePct * last.pnl * last.prev[c].deposit)
                         <= 100 * SnapshotTotal(last.snapshot)
                 ELSE Credited(c) = 0
        /\ pc = "setC" => lastRowCell > last.n

\* a TP_HIT of a signal never opened credited 9 and 6 to the investors active
\* at 600 and 400, and the cursor was written past the row
C13_Witness ==
    /\ last.ev = "TP_HIT" /\ ~last.had /\ last.stored = <<>>
    /\ last.snapshot = <<<<1, 600>>, <<2, 400>>>>
    /\ Credited(1) = 9 /\ Credited(2) = 6
    /\ pc = "setC"

\* C14: an OPEN row leaves every active investor whose Pending_Deposit was
\* written by a command since the previous OPEN with the deposit that the last
\* such command wrote.
C14_LastPendingWriteWins ==
    [][(RowHandled /\ last'.ev \in OpenEvents)
       => \A c \in Users :
             (roster[c].present /\ roster[c].active /\ written[c] # Unwritten)
             => roster'[c].deposit = written[c]]_vars

\* accrued - paid - reinvested
RawAvail(u) == u.bonus_acc - u.bonus_paid - u.bonus_to_dep

Max0(x) == IF x > 0 THEN x ELSE 0

\* what a step moved out of an investor's available bonus
Taken(c) ==
    (roster'[c].bonus_paid + roster'[c].bonus_to_dep)
    - (roster[c].bonus_paid + roster[c].bonus_to_dep)

\* C15: the available bonus that /balance, /withdraw_bonus and /withdraw_all
\* compute is max(0, accrued - paid - reinvested) of the investor's row, never
\* negative; /pay_bonus, /apply_from_bonus and /pay_all move between 0 and that
\* amount, all of it on "all"; /add_from_bonus asks for at most that amount.
C15_AvailableIsClampedDifference ==
    [][cmds' # cmds =>
          /\ reply' # reply =>
                /\ reply'.raw = RawAvail(roster[reply'.chat_id])
                /\ reply'.avail = Max0(reply'.raw)
                /\ reply'.avail >= 0
          /\ \A c \in Users :
                /\ Taken(c) >= 0
                /\ Taken(c) <= Max0(RawAvail(roster[c]))
                /\ (roster'[c].pending # roster[c].pending /\ roster[c].present)
                   => /\ roster'[c].pending - roster[c].deposit > 0
                      /\ roster'[c].pending - roster[c].deposit <= Max0(RawAvail(roster[c]))
                /\ (roster[c].active /\ ~roster'[c].active)
                   => Taken(c) = Max0(RawAvail(roster[c]))]_vars

\* after a close with a loss the accrued bonus of an investor is below what
\* was paid out, and /balance answered 0
C15_Witness ==
    /\ reply.k > 0 /\ reply.raw < 0 /\ reply.avail = 0
    /\ roster[reply.chat_id].bonus_paid > roster[reply.chat_id].bonus_acc

SentIds == [i \in 1..Len(sends) |-> sends[i].chat_id]

\* C16: the sends of a cycle come after all rows of the batch were handled and
\* before the cursor is written; every queued recipient gets its attempt, in
\* queue order, whether or not earlier attempts failed; a failed attempt does
\* not end the cycle, and the cursor is then written to the end of the batch.
C16_EveryRecipientIsTried ==
    [][/\ sends' # <<>> => new_records' = <<>> /\ handled' # <<>>
       /\ (pc = "send" /\ pc' \in {"send", "setA"})
          => SentIds' \o per_user_msgs' = SentIds \o per_user_msgs
       /\ (pc = "send" /\ per_user_msgs' # per_user_msgs)
          => /\ Len(sends') = Len(sends) + 1
             /\ pc' = (IF Len(per_user_msgs) = 1 THEN "setA" ELSE "send")
             /\ errors' = errors
             /\ lastRowCell' = lastRowCell
       /\ pc' = "send" => per_user_msgs' # <<>> /\ lastRowCell' = began'.cursor
       /\ (pc = "rows" /\ pc' = "setA") => per_user_msgs = <<>>
       /\ lastRowCell' # lastRowCell
          => /\ per_user_msgs = <<>>
             /\ began.cursor # 0 => lastRowCell' = began.rows + 1]_vars

\* the send to the first of two recipients failed, the second was tried, and
\* the cursor was written past the batch
C16_Witness ==
    /\ pc = "setC"
    /\ Len(sends) = 2 /\ ~sends[1].ok /\ sends[2].ok
    /\ handled # <<>>
    /\ lastRowCell = began.rows + 1 /\ lastRowCell > began.cursor

\* Bonus_Accrued over the roster (it starts at 0 in every row)
AccruedTotal == SumSeq([i \in 1..Len(UserIds) |-> roster[UserIds[i]].bonus_acc])

\* C17: between cycles Profit30_Total_USDT is the amount that close rows have
\* added to the investors' Bonus_Accrued, up to the rounding of the shares.
C17_ProfitCounterIsCredited ==
    pc = "idle" =>
        Abs(100 * (profitCell - AccruedTotal)) <= 50 * Len(log) * (Len(UserIds) + 1)

\* the cycle is past its only await (send_all, line 997) or in it
PastRosterWrites == pc \in {"send", "setA", "setC"}

\* a handler served while the cycle is in flight changed the row of an investor
\* whom the latest close row of this cycle credited
BothUpdated(c) ==
    /\ PastRosterWrites /\ IsClose
    /\ Credited(c) # 0
    /\ roster[c] # last.post[c]

\* the credit of the cycle is no longer in the row
CreditLost(c) == roster[c].bonus_acc # last.post[c].bonus_acc

C19_EveryRowIsHandled ==
    /\ \A n \in 1..MaxLog :
          (Len(log) >= n /\ GetLastRow(lastRowCell) \in 1..n)
              ~> (Len(applied) >= n /\ applied[n] >= 1)
    /\ []<>(GetLastRow(lastRowCell) = TotalRows(SheetDicts(log)))

\* a cycle ended in an exception, and yet the last row of the log, appended
\* after the first cycle, has been handled and the cursor is at the row count
C19_Witness ==
    /\ errors >= 1
    /\ Len(log) >= 2 /\ applied[1] = 0
    /\ applied[Len(log)] >= 1
    /\ pc = "idle"
    /\ GetLastRow(lastRowCell) = TotalRows(SheetDicts(log))

\* C20: bonus converted to deposit is counted once.  With add_from_bonus,
\* apply_from_bonus and OPEN rows the only things that change a deposit, once
\* no pending deposit is outstanding the deposit of an investor has grown by
\* what Bonus_To_Deposit has grown by.
C20_ReinvestedCountedOnce ==
    \A c \in Users :
        roster[c].pending = 0 =>
            roster[c].deposit - StartRoster[c].deposit = roster[c].bonus_to_dep

\* C21: /setdep <chat_id> <dep> takes effect from the next trade.  With /setdep
\* the only command that writes Pending_Deposit, the deposit of an investor,
\* active or not, is what it was until an OPEN row is handled, and that OPEN
\* row leaves it at the value the last /setdep gave, 0 included.
C21_SetdepAppliesAtNextOpen ==
    [][\A c \in Users :
          /\ (cmds' # cmds /\ roster[c].present)
                 => roster'[c].deposit = roster[c].deposit
          /\ (RowHandled /\ last'.ev \in OpenEvents
                 /\ roster[c].present /\ written[c] # Unwritten)
                 => roster'[c].deposit = written[c]]_vars

\* the latest row handled is an OPEN row that an earlier, abandoned cycle had
\* handled to its end, its signal still open
Replayed ==
    /\ InFlight /\ IsOpen
    /\ last.had
    /\ applied[last.n] >= 2

\* the replay changed the Deposit or Pending_Deposit of an investor
ReplayChangedRoster ==
    \E c \in Users :
        \/ last.post[c].deposit # last.prev[c].deposit
        \/ last.post[c].pending # last.prev[c].pending

\* C22 (as amended): replaying an OPEN row whose commit was already persisted
\* applies no pending deposit a second time.  The commit sets the deposit to
\* the pending amount and the pending amount to 0, so with no command in
\* between the replay finds nothing to commit: every Deposit and
\* Pending_Deposit stays as the first handling left it, and the snapshot
\* stored is the one the first handling stored.
C22_ReplayedOpenIsIdempotent ==
    Replayed => (~ReplayChangedRoster /\ last.snapshot = last.entered)

\* an OPEN row replayed after its first handling had committed a pending
\* deposit, the investor in the cohort at the committed amount
C22_Witness ==
    /\ Replayed
    /\ \E r0 \in InitRosters : \E c \in Users :
          /\ r0[c].active /\ r0[c].pending > 0 /\ r0[c].pending # r0[c].deposit
          /\ roster[c].deposit = r0[c].pending
          /\ \E i \in 1..Len(last.snapshot) :
                last.snapshot[i] = <<c, r0[c].pending>>

\* C22 as stated: the replay double-applies pending deposits and stores a
\* snapshot different from the first one
C22_ReplayDoubleApplies ==
    Replayed => (ReplayChangedRoster /\ last.snapshot # last.entered)

\* a cycle that read cursor 0 is at its set_state
FirstRunCycle == pc \in {"setA", "setC"} /\ FirstRun(last_row)

\* C23: a cycle that reads cursor 0 (first run, or a Last_Row cell that is
\* empty or no digit string) goes straight to its set_state: it handles no row,
\* sends nothing, leaves roster and open_positions as they are, writes the row
\* count of the log as cursor and 0 as profit counter; and no row that such a
\* cycle found in the log is handled by a later cycle.
C23_FirstRunSkipsHistory ==
    [][ /\ (pc = "idle" /\ GetLastRow(lastRowCell) = 0
            /\ log' = log /\ errors' = errors /\ lastRowCell' = lastRowCell)
           => /\ FirstRunCycle'
              /\ total_rows' = TotalRows(SheetDicts(log))
              /\ UNCHANGED <<roster, open_positions, handled, applied, sends,
                             per_user_msgs>>
        /\ (FirstRunCycle /\ errors' = errors /\ log' = log /\ cmds' = cmds)
           => /\ UNCHANGED <<roster, open_positions, handled, applied, sends,
                             per_user_msgs>>
              /\ (pc = "setA" => lastRowCell' = TotalRows(SheetDicts(log)))
              /\ (pc = "setC" => profitCell' = 0 /\ pc' = "idle")
        /\ (pc = "rows" /\ new_records # <<>> /\ applied' # applied)
           => Rec.n > skipped ]_vars

\* the cursor cell was emptied with unhandled rows in the log, the cycle that
\* then read cursor 0 has ended, and a later cycle has handled a row appended
\* since, the rows found by the cursor-0 cycle still unhandled
C23_Witness ==
    /\ skipped >= 2
    /\ applied[1] = 1 /\ applied[skipped] = 0
    /\ Len(log) > skipped
    /\ applied[Len(log)] = 1
    /\ lastRowCell = Len(log) + 1

\* every row below the persisted cursor has been handled, or was in the log
\* when a cycle read cursor 0
NoRowSkipped ==
    \A i \in 1..Len(log) :
        i < GetLastRow(lastRowCell) => (applied[i] >= 1 \/ i <= skipped)

\* C24: rows appended to the log while a cycle is in flight, after it read the
\* log, are not skipped: the cursor the cycle persists is the row count it read
\* at its start, so the cursor never passes a row that was not handled.
C24_InFlightRowsAreKept ==
    [][ /\ (pc = "setA" /\ pc' = "setC") => lastRowCell' = began.rows + 1
        /\ NoRowSkipped' ]_vars

\* a cycle that handled rows has written its cursor, the row count it read,
\* with a row in the log that was appended during its send_all
C24_Witness ==
    /\ pc = "setC" /\ ~FirstRun(last_row)
    /\ Len(log) > began.rows
    /\ lastRowCell = began.rows + 1
    /\ applied[Len(log)] = 0

\* C25: no investor is paid or reinvested more bonus than accrued: in every
\* roster state Bonus_Paid + Bonus_To_Deposit is at most Bonus_Accrued, under
\* any order of pay_bonus, apply_from_bonus, pay_all and close rows, closes
\* with a negative PnL included.
C25_TakenAtMostAccrued ==
    \A c \in Users :
        roster[c].bonus_paid + roster[c].bonus_to_dep <= roster[c].bonus_acc

\* the handler of an update has just run
HandlerRan == ~update.done /\ update'.done

\* C26: an admin command handler invoked by a sender whose user id and chat id
\* are both outside ADMIN_IDS leaves the roster and the state record as they
\* are, appends no ledger row and sends no message.
C26_NonAdminIsIgnored ==
    [][(HandlerRan /\ update.uid \notin ADMIN_IDS /\ update.cid \notin ADMIN_IDS)
       => /\ UNCHANGED <<roster, lastRowCell, profitCell, open_positions>>
          /\ update'.ledger = 0
          /\ update'.msgs = 0]_vars

\* an admin command from a sender outside ADMIN_IDS has been ignored, after
\* one from an admin was obeyed by a Marketing_Ledger row and an answer
C26_Witness ==
    /\ update.done
    /\ update.uid \notin ADMIN_IDS /\ update.cid \notin ADMIN_IDS
    /\ update.ledger = 0 /\ update.msgs = 0
    /\ cmds = 2
    /\ \E c \in Users : roster[c].bonus_paid > 0

====
